---- MODULE Spec2Model ----
(***************************************************************************)
(* A model of src/main.rs: one run of main, from the page request to the   *)
(* last segment written to the output file.  Every network response is an  *)
(* input, drawn when the request is issued.                                *)
(***************************************************************************)
EXTENDS Integers, Sequences, FiniteSets, TLC

\* ------------------------------------------------------------------ bounds
\* longest page body, in lexical pieces
MaxBodyLen == 8
\* most variants in a manifest's "video" array
MaxVideos == 2
\* most segments of a variant
MaxSegments == 2
\* largest declared segment size
MaxSize == 2

VARIABLES
    pc,          \* the statement main (or the function it called) is at
    requests,    \* the URLs requested so far, in order
    response,    \* the most recent response
    config_url,  \* main's config_url
    master_url,  \* main's master_url
    videos,      \* main's videos
    video,       \* main's video, as an index into videos (0: not selected)
    file,        \* the output file
    segment,     \* download's loop position, an index into video.segments
    count,       \* download's count
    bar,         \* the progress bar
    outcome      \* how the run ended

vars == <<pc, requests, response, config_url, master_url, videos, video,
          file, segment, count, bar, outcome>>

\* ------------------------------------------------------- results, options
Ok(v) == [kind |-> "Ok", v |-> v]
Err(e) == [kind |-> "Err", error |-> e]
Panic(e) == [kind |-> "Panic", error |-> e]
None == [some |-> FALSE]
Some(v) == [some |-> TRUE, v |-> v]

\* a response: the request failed (call()? returns the error), or a body
NoResponse == [ok |-> FALSE, error |-> "none yet"]
Failed == [ok |-> FALSE, error |-> "Transport"]
Body(b) == [ok |-> TRUE, body |-> b]

\* ------------------------------------------------------------- JSON values
Null == [t |-> "Null"]
Str(s) == [t |-> "String", str |-> s]
Num(n) == [t |-> "Number", num |-> n]
Obj(f) == [t |-> "Object", map |-> f]
Arr(s) == [t |-> "Array", list |-> s]
\* a body that is not JSON: into_json()? returns the error
NotJson == [t |-> "NotJson"]

\* value[key]: Null unless value is an object that has the key
Index(value, key) ==
    IF value.t = "Object" /\ key \in DOMAIN value.map THEN value.map[key] ELSE Null
as_str(value) == IF value.t = "String" THEN Some(value.str) ELSE None
as_u64(value) == IF value.t = "Number" /\ value.num >= 0 THEN Some(value.num) ELSE None
as_f64(value) == IF value.t = "Number" THEN Some(value.num) ELSE None
as_array(value) == IF value.t = "Array" THEN Some(value.list) ELSE None

\* ------------------------------------------------------- the page's markup
\* A page body is a sequence of lexical pieces; every other text behaves as one
\* of these does.
ATTR == "data-config-url="
DQ == "\""
AMP == "&"
AMP_TAIL == "amp;"
Pieces == {ATTR, DQ, AMP, AMP_TAIL}

RECURSIVE NextQuote(_, _)
\* the first position >= j holding a double quote, 0 when there is none
NextQuote(text, j) ==
    IF j > Len(text) THEN 0
    ELSE IF text[j] = DQ THEN j ELSE NextQuote(text, j + 1)

RECURSIVE captures(_, _)
\* Regex data-config-url="([^"]+)" searched from position i on: group 1 of the
\* leftmost match
captures(text, i) ==
    IF i + 3 > Len(text) THEN None
    ELSE IF /\ text[i] = ATTR
            /\ text[i + 1] = DQ
            /\ text[i + 2] # DQ
            /\ NextQuote(text, i + 2) # 0
         THEN Some(SubSeq(text, i + 2, NextQuote(text, i + 2) - 1))
         ELSE captures(text, i + 1)

RECURSIVE decode_html_entities(_)
\* one pass, left to right: &amp; becomes &
decode_html_entities(s) ==
    IF s = <<>> THEN <<>>
    ELSE IF Len(s) >= 2 /\ s[1] = AMP /\ s[2] = AMP_TAIL
         THEN <<AMP>> \o decode_html_entities(SubSeq(s, 3, Len(s)))
         ELSE <<s[1]>> \o decode_html_entities(Tail(s))

\* get_config_url without line 58's decode_html_entities
get_config_url_undecoded(resp) ==
    IF ~resp.ok THEN Err("Transport")
    ELSE LET group == captures(resp.body, 1)
         IN  IF ~group.some THEN Err("Did not find video config url!")
             ELSE Ok(group.v)

get_config_url(resp) ==
    IF ~resp.ok THEN Err("Transport")
    ELSE LET group == captures(resp.body, 1)
         IN  IF ~group.some THEN Err("Did not find video config url!")
             ELSE Ok(decode_html_entities(group.v))

\* ------------------------------------------------ the configuration document
get_master_url(resp) ==
    IF ~resp.ok THEN Err("Transport")
    ELSE IF resp.body = NotJson THEN Err("Json")
    ELSE LET dash_config == Index(Index(Index(resp.body, "request"), "files"), "dash")
             default_cdn == as_str(Index(dash_config, "default_cdn"))
         IN  IF ~default_cdn.some THEN Panic("unwrap on None")
             ELSE LET cdns == Index(dash_config, "cdns")
                      cdn_config == Index(cdns, default_cdn.v)
                      url == as_str(Index(cdn_config, "url"))
                  IN  IF ~url.some THEN Panic("unwrap on None") ELSE Ok(url.v)

\* --------------------------------------------------------------------- URLs
\* A URL is its origin followed by the components of its path; a path that ends
\* in "/" has "" as its last component.  Text is parsed by table: the strings
\* below are the ones the documents of this model hold.
PAGE_URL == <<"https://v", "event">>
ParseUrl(s) ==
    CASE s = "https://m/v/master.json" -> Some(<<"https://m", "v", "master.json">>)
      [] s = "https://n/master.json" -> Some(<<"https://n", "master.json">>)
      [] OTHER -> None
\* a relative reference's components; None: not parsable as a reference
ParseReference(s) ==
    CASE s = "dash/" -> Some(<<"dash", "">>)
      [] s = "dash" -> Some(<<"dash">>)
      [] s = "../" -> Some(<<"..", "">>)
      [] s = "s1" -> Some(<<"s1">>)
      [] s = "s2" -> Some(<<"s2">>)
      [] s = "./s1" -> Some(<<".", "s1">>)
      [] OTHER -> None

RECURSIVE RemoveDots(_, _)
\* "." and ".." resolved, components left to right; done holds the output so far
RemoveDots(done, todo) ==
    IF todo = <<>> THEN done
    ELSE IF todo[1] = "." THEN RemoveDots(done, Tail(todo))
    ELSE IF todo[1] = ".."
         THEN RemoveDots(IF done = <<>> THEN done ELSE SubSeq(done, 1, Len(done) - 1),
                         Tail(todo))
         ELSE RemoveDots(Append(done, todo[1]), Tail(todo))

\* Url::join: an absolute reference replaces the base; a relative one replaces
\* the base path's last component and is normalised
join(base, s) ==
    IF ParseUrl(s).some THEN Ok(ParseUrl(s).v)
    ELSE IF ~ParseReference(s).some THEN Err("Url")
    ELSE Ok(<<base[1]>> \o RemoveDots(<<>>, SubSeq(base, 2, Len(base) - 1)
                                           \o ParseReference(s).v))

\* ------------------------------------------------------------------- base64
\* The symbols of a string, as 6-bit values; PAD is "=".
PAD == 64
Symbols(s) ==
    CASE s = "" -> <<>>
      [] s = "AQ" -> <<0, 16>>
      [] s = "AR" -> <<0, 17>>
      [] s = "AQ==" -> <<0, 16, PAD, PAD>>
      [] s = "A" -> <<0>>
      [] s = "AAEC" -> <<0, 0, 4, 2>>
      [] s = "AAE" -> <<0, 0, 4>>

RECURSIVE decode(_)
\* general_purpose::STANDARD_NO_PAD.decode, on the symbols: bytes, each <<0, b>>
decode(syms) ==
    IF \E i \in 1..Len(syms) : syms[i] = PAD THEN Err("InvalidPadding")
    ELSE IF Len(syms) = 0 THEN Ok(<<>>)
    ELSE IF Len(syms) = 1 THEN Err("InvalidLength")
    ELSE IF Len(syms) = 2
         THEN IF syms[2] % 16 # 0 THEN Err("InvalidLastSymbol")
              ELSE Ok(<< <<0, syms[1] * 4 + syms[2] \div 16>> >>)
    ELSE IF Len(syms) = 3
         THEN IF syms[3] % 4 # 0 THEN Err("InvalidLastSymbol")
              ELSE Ok(<< <<0, syms[1] * 4 + syms[2] \div 16>>,
                         <<0, (syms[2] % 16) * 16 + syms[3] \div 4>> >>)
    ELSE LET rest == decode(SubSeq(syms, 5, Len(syms)))
         IN  IF rest.kind # "Ok" THEN rest
             ELSE Ok(<< <<0, syms[1] * 4 + syms[2] \div 16>>,
                        <<0, (syms[2] % 16) * 16 + syms[3] \div 4>>,
                        <<0, (syms[3] % 4) * 64 + syms[4]>> >> \o rest.v)

\* ------------------------------------------------------------- the manifest
\* Value::to_string of the values an id or codecs field holds here
to_string(value) ==
    IF value.t = "String" THEN <<DQ, value.str, DQ>> ELSE <<"null">>

extract_segment(s) ==
    LET path == as_str(Index(s, "url"))
        size == as_u64(Index(s, "size"))
    IN  IF ~path.some \/ ~size.some THEN Panic("unwrap on None")
        ELSE Ok([path |-> path.v, size |-> size.v])

extract_video_info(value, base_url) ==
    LET init_segment == as_str(Index(value, "init_segment"))
        bitrate == as_u64(Index(value, "bitrate"))
        duration == as_f64(Index(value, "duration"))
        width == as_u64(Index(value, "width"))
        height == as_u64(Index(value, "height"))
        segments == as_array(Index(value, "segments"))
    IN  IF \/ ~init_segment.some \/ ~bitrate.some \/ ~duration.some
           \/ ~width.some \/ ~height.some \/ ~segments.some
        THEN Panic("unwrap on None")
        ELSE LET bytes == decode(Symbols(init_segment.v))
                 segs == [i \in 1..Len(segments.v) |-> extract_segment(segments.v[i])]
             IN  IF bytes.kind # "Ok" THEN Panic("unwrap on Err")
                 ELSE IF \E i \in 1..Len(segs) : segs[i].kind # "Ok"
                      THEN Panic("unwrap on None")
                 ELSE Ok([base_url |-> base_url,
                          id |-> to_string(Index(value, "id")),
                          codecs |-> to_string(Index(value, "codecs")),
                          bitrate |-> bitrate.v,
                          duration |-> duration.v,
                          width |-> width.v,
                          height |-> height.v,
                          init_segment |-> bytes.v,
                          segments |-> [i \in 1..Len(segs) |-> segs[i].v]])

get_video_infos(resp, url) ==
    IF ~resp.ok THEN Err("Transport")
    ELSE IF resp.body = NotJson THEN Err("Json")
    ELSE LET base_url == as_str(Index(resp.body, "base_url"))
         IN  IF ~base_url.some THEN Panic("unwrap on None")
             ELSE LET joined == join(ParseUrl(url).v, base_url.v)
                      list == as_array(Index(resp.body, "video"))
                  IN  IF joined.kind # "Ok" THEN joined
                      ELSE IF ~list.some THEN Panic("unwrap on None")
                      ELSE LET infos == [i \in 1..Len(list.v) |->
                                           extract_video_info(list.v[i], joined.v)]
                           IN  IF \E i \in 1..Len(infos) : infos[i].kind # "Ok"
                               THEN Panic("unwrap on None")
                               ELSE Ok([i \in 1..Len(infos) |-> infos[i].v])

RECURSIVE max_by_key_from(_, _, _)
\* Iterator::max_by_key's fold over the rest of the list: a later element
\* replaces the best so far unless its key is smaller
max_by_key_from(list, best, i) ==
    IF i > Len(list) THEN best
    ELSE max_by_key_from(list,
                         IF list[i].width >= list[best].width THEN i ELSE best,
                         i + 1)

\* max_by_key keeping the first of the largest
max_by_key_first(list) ==
    IF list = <<>> THEN None
    ELSE Some(CHOOSE i \in 1..Len(list) :
                /\ \A j \in 1..Len(list) : list[j].width <= list[i].width
                /\ \A j \in 1..(i - 1) : list[j].width < list[i].width)

\* videos.iter().max_by_key(|v| v.width), as an index into the list
max_by_key(list) ==
    IF list = <<>> THEN None ELSE Some(max_by_key_from(list, 1, 2))

\* ----------------------------------------------------------------- download
RECURSIVE sum(_)
\* video.segments.iter().map(|s| s.size).sum().  Sizes are u64; the declared
\* sizes of this model stay where neither this sum nor size + 1 wraps.
sum(segments) ==
    IF segments = <<>> THEN 0 ELSE segments[1].size + sum(Tail(segments))

\* the n bytes of the k-th segment's response body
SegmentBytes(k, n) == [j \in 1..n |-> <<k, j>>]

\* the test that lets the loop go on: the negation of line 148's condition
byte_count_ok(n, size) == ~(n # size + 1)

\* bar.inc(count)
inc_amount_whole(n) == n

\* the argument of bar.inc
inc_amount(n) == n - 1

\* what agent.get(url).call() is given, as the entry of the request log
Requested(s) == IF ParseUrl(s).some THEN ParseUrl(s).v ELSE <<s>>

\* ------------------------------------------------------------------ the run
Running == [fn |-> "", kind |-> "Running", error |-> "", read |-> 0, expected |-> 0]
Ended(fn, r) ==
    [fn |-> fn, kind |-> r.kind, error |-> IF r.kind = "Ok" THEN "" ELSE r.error,
     read |-> 0, expected |-> 0]

Init ==
    /\ pc = "main:32"
    /\ requests = <<>>
    /\ response = NoResponse
    /\ config_url = <<>>
    /\ master_url = ""
    /\ videos = <<>>
    /\ video = 0
    /\ file = [exists |-> FALSE, data |-> <<>>]
    /\ segment = 0
    /\ count = 0
    /\ bar = [exists |-> FALSE, length |-> 0, position |-> 0, finished |-> FALSE]
    /\ outcome = Running

\* main, line 32: get_config_url(..).unwrap()
main_get_config_url(bodies) ==
    /\ pc = "main:32"
    /\ \E resp \in {Failed} \cup {Body(b) : b \in bodies} :
         LET r == get_config_url(resp)
         IN  /\ requests' = Append(requests, PAGE_URL)
             /\ response' = resp
             /\ IF r.kind = "Ok"
                THEN config_url' = r.v /\ pc' = "main:33" /\ outcome' = outcome
                ELSE config_url' = config_url /\ pc' = "exit"
                     /\ outcome' = Ended("get_config_url", r)
    /\ UNCHANGED <<master_url, videos, video, file, segment, count, bar>>

\* main, line 33: get_master_url(..).unwrap()
main_get_master_url(configs) ==
    /\ pc = "main:33"
    /\ \E resp \in {Failed} \cup {Body(b) : b \in configs} :
         LET r == get_master_url(resp)
         IN  /\ requests' = Append(requests, config_url)
             /\ response' = resp
             /\ IF r.kind = "Ok"
                THEN master_url' = r.v /\ pc' = "main:34" /\ outcome' = outcome
                ELSE master_url' = master_url /\ pc' = "exit"
                     /\ outcome' = Ended("get_master_url", r)
    /\ UNCHANGED <<config_url, videos, video, file, segment, count, bar>>

\* main, line 34: get_video_infos(..).unwrap().  A master_url that is no URL
\* makes the call fail.
main_get_video_infos(manifests) ==
    /\ pc = "main:34"
    /\ \E resp \in {Failed} \cup
                   (IF ParseUrl(master_url).some THEN {Body(b) : b \in manifests} ELSE {}) :
         LET r == get_video_infos(resp, master_url)
         IN  /\ requests' = Append(requests, Requested(master_url))
             /\ response' = resp
             /\ IF r.kind = "Ok"
                THEN videos' = r.v /\ pc' = "main:39" /\ outcome' = outcome
                ELSE videos' = videos /\ pc' = "exit"
                     /\ outcome' = Ended("get_video_infos", r)
    /\ UNCHANGED <<config_url, master_url, video, file, segment, count, bar>>

\* main, lines 35-40: max_by_key(..).unwrap()
main_select ==
    /\ pc = "main:39"
    /\ LET best == max_by_key(videos)
       IN  IF best.some
           THEN video' = best.v /\ pc' = "main:42" /\ outcome' = outcome
           ELSE video' = video /\ pc' = "exit"
                /\ outcome' = Ended("main", Panic("unwrap on None"))
    /\ UNCHANGED <<requests, response, config_url, master_url, videos, file,
                   segment, count, bar>>

\* download, lines 137-142: the file is created and the initialization block
\* written; either may fail
download_create ==
    /\ pc = "main:42"
    /\ LET info == videos[video]
       IN  \/ /\ file' = file
              /\ pc' = "exit" /\ outcome' = Ended("download", Err("Io"))
              /\ UNCHANGED <<segment, bar>>
           \/ /\ \E n \in 0..(Len(info.init_segment) - 1) :
                    file' = [exists |-> TRUE, data |-> SubSeq(info.init_segment, 1, n)]
              /\ pc' = "exit" /\ outcome' = Ended("download", Err("Io"))
              /\ UNCHANGED <<segment, bar>>
           \/ /\ file' = [exists |-> TRUE, data |-> info.init_segment]
              /\ bar' = [exists |-> TRUE, length |-> sum(info.segments),
                         position |-> 0, finished |-> FALSE]
              /\ segment' = 1
              /\ pc' = "download:144" /\ outcome' = outcome
    /\ UNCHANGED <<requests, response, config_url, master_url, videos, video, count>>

\* download, lines 144-146: the next segment's URL is resolved and requested
download_request(bodies) ==
    /\ pc = "download:144"
    /\ segment <= Len(videos[video].segments)
    /\ LET info == videos[video]
           url == join(info.base_url, info.segments[segment].path)
       IN  IF url.kind # "Ok"
           THEN /\ pc' = "exit" /\ outcome' = Ended("download", url)
                /\ UNCHANGED <<requests, response>>
           ELSE \E resp \in {Failed} \cup {Body(b) : b \in bodies} :
                  /\ requests' = Append(requests, url.v)
                  /\ response' = resp
                  /\ IF resp.ok
                     THEN pc' = "download:147" /\ outcome' = outcome
                     ELSE pc' = "exit" /\ outcome' = Ended("download", Err("Transport"))
    /\ UNCHANGED <<config_url, master_url, videos, video, file, segment, count, bar>>

\* download, line 147: io::copy appends what it reads to the file; a body that
\* breaks off makes it return the error after the bytes before the break
download_copy ==
    /\ pc = "download:147"
    /\ file' = [file EXCEPT !.data = @ \o SegmentBytes(segment, response.body.sent)]
    /\ IF response.body.broken
       THEN count' = count /\ pc' = "exit" /\ outcome' = Ended("download", Err("Io"))
       ELSE count' = response.body.sent /\ pc' = "download:148" /\ outcome' = outcome
    /\ UNCHANGED <<requests, response, config_url, master_url, videos, video,
                   segment, bar>>

\* download, lines 148-153
download_check ==
    /\ pc = "download:148"
    /\ LET size == videos[video].segments[segment].size
       IN  IF byte_count_ok(count, size)
           THEN pc' = "download:154" /\ outcome' = outcome
           ELSE /\ pc' = "exit"
                /\ outcome' = [fn |-> "download", kind |-> "Err",
                               error |-> "Invalid byte count!",
                               read |-> count, expected |-> size]
    /\ UNCHANGED <<requests, response, config_url, master_url, videos, video,
                   file, segment, count, bar>>

\* download_inc with the loop staying at the same segment
download_inc_again ==
    /\ pc = "download:154"
    /\ bar' = [bar EXCEPT !.position = @ + inc_amount(count)]
    /\ segment' = segment
    /\ pc' = "download:144"
    /\ UNCHANGED <<requests, response, config_url, master_url, videos, video,
                   file, count, outcome>>

\* download, line 154, and the loop's step
download_inc ==
    /\ pc = "download:154"
    /\ bar' = [bar EXCEPT !.position = @ + inc_amount(count)]
    /\ segment' = segment + 1
    /\ pc' = "download:144"
    /\ UNCHANGED <<requests, response, config_url, master_url, videos, video,
                   file, count, outcome>>

\* download, lines 157-159, and main's return
download_finish ==
    /\ pc = "download:144"
    /\ segment > Len(videos[video].segments)
    /\ bar' = [bar EXCEPT !.position = bar.length, !.finished = TRUE]
    /\ pc' = "exit"
    /\ outcome' = Ended("main", Ok(<<>>))
    /\ UNCHANGED <<requests, response, config_url, master_url, videos, video,
                   file, segment, count>>

\* ---------------------------------------------------------------- the inputs
\* page bodies: every sequence of pieces up to the bound, and two fixed ones
Bodies == UNION {[1..n -> Pieces] : n \in 0..MaxBodyLen}
PlainBodies == {<<ATTR, DQ, AMP_TAIL, AMP, AMP_TAIL, DQ>>, <<ATTR, DQ>>}

\* an object without one of its keys, and with one of its values replaced
Without(value, key) == Obj([k \in DOMAIN value.map \ {key} |-> value.map[k]])
With(value, key, new) ==
    Obj([k \in DOMAIN value.map |-> IF k = key THEN new ELSE value.map[k]])

\* configuration documents
ConfigDocument(dash) == Obj([request |-> Obj([files |-> Obj([dash |-> dash, hls |-> Null])])])
MasterUrls == {"https://m/v/master.json", "https://n/master.json", "master.json"}
CdnNames == {"akfire", "fastly"}
CdnConfigs == {Obj([url |-> Str(u)]) : u \in MasterUrls}
                \cup {Obj([url |-> Num(1)]), Obj(<<>>), Str("https://n/master.json")}
Cdns == {Obj(f) : f \in UNION {[names -> CdnConfigs] : names \in SUBSET CdnNames}}
            \cup {Str("akfire")}
DashConfigs ==
    {Obj([default_cdn |-> d, cdns |-> c]) : d \in {Str(n) : n \in CdnNames} \cup {Num(1)},
                                            c \in Cdns}
      \cup {Obj([cdns |-> c]) : c \in Cdns}
      \cup {Obj([default_cdn |-> Str("akfire")]), Null}
Configs ==
    {ConfigDocument(d) : d \in DashConfigs}
      \cup {Obj([request |-> Obj([files |-> Obj(<<>>)])]), Obj([request |-> Str("x")]),
            Arr(<<>>), NotJson}
PlainConfig(u) == ConfigDocument(Obj([default_cdn |-> Str("akfire"),
                                      cdns |-> Obj([akfire |-> Obj([url |-> Str(u)])])]))
PlainConfigs == {PlainConfig("https://m/v/master.json"), ConfigDocument(Null)}

\* manifests
Segment(path, size) == Obj([url |-> Str(path), size |-> Num(size)])
Variant(width, init, segs) ==
    Obj([id |-> Str("1"), codecs |-> Str("avc1"), bitrate |-> Num(500),
         duration |-> Num(10), width |-> Num(width), height |-> Num(360),
         init_segment |-> Str(init), segments |-> Arr(segs)])
Manifest(base, list) == Obj([base_url |-> Str(base), video |-> Arr(list)])
Lists(S, n) == UNION {[1..k -> S] : k \in 0..n}

Widths == {640, 1280}
PlainVariant == Variant(640, "AQ", <<Segment("s1", 1)>>)
\* variants a parser must refuse, each PlainVariant with one field spoilt
SpoiltVariants ==
    {Without(PlainVariant, k) :
        k \in {"bitrate", "duration", "width", "height", "init_segment", "segments"}}
      \cup {With(PlainVariant, "bitrate", v) : v \in {Str("500"), Num(-1)}}
      \cup {With(PlainVariant, "duration", Str("10")), With(PlainVariant, "width", Num(-1)),
            With(PlainVariant, "height", Null), With(PlainVariant, "segments", Str("s1"))}
      \cup {With(PlainVariant, "init_segment", v) :
              v \in {Num(0), Str("AR"), Str("AQ=="), Str("A")}}
      \cup {With(PlainVariant, "segments", Arr(<<s>>)) :
              s \in {Obj([url |-> Str("s1")]), Obj([size |-> Num(1)]), Str("s1"),
                     Obj([url |-> Num(1), size |-> Num(1)]),
                     Obj([url |-> Str("s1"), size |-> Num(-1)])}}
\* variants it accepts
SoundVariants ==
    {Variant(w, "AQ", segs) : w \in Widths, segs \in {<<>>, <<Segment("s1", 1)>>}}
      \cup {Without(PlainVariant, "id"), Variant(640, "AAEC", <<Segment("./s1", 0)>>)}
ParserManifests ==
    {Manifest(b, l) : b \in {"dash/", "dash", "../", "http://["},
                      l \in Lists(SoundVariants \cup SpoiltVariants, MaxVideos)}
      \cup {Obj([video |-> Arr(<<PlainVariant>>)]),
            Obj([base_url |-> Num(1), video |-> Arr(<<PlainVariant>>)]),
            Obj([base_url |-> Str("dash/")]),
            Obj([base_url |-> Str("dash/"), video |-> PlainVariant]),
            NotJson}
\* manifests of one variant, with every list of segments up to the bounds
DownloadSegments == {Segment(p, z) : p \in {"s1", "s2", "http://["}, z \in 0..MaxSize}
DownloadManifests ==
    {Manifest("dash/", <<Variant(640, i, segs)>>) :
        i \in {"AAE"}, segs \in Lists(DownloadSegments, MaxSegments)}
PlainManifests == {Manifest("dash/", <<PlainVariant>>), Manifest("dash/", <<>>)}

\* segment bodies: sent bytes arrive, then the body ends or breaks off
SegmentBodies == [sent : 0..(MaxSize + 1), broken : BOOLEAN]

\* -------------------------------------------------------- the specifications
Run(bodies, configs, manifests) ==
    \/ main_get_config_url(bodies)
    \/ main_get_master_url(configs)
    \/ main_get_video_infos(manifests)
    \/ main_select
    \/ download_create
    \/ download_request(SegmentBodies)
    \/ download_copy
    \/ download_check
    \/ download_inc
    \/ download_finish

\* the download in full
Next == Run(PlainBodies, PlainConfigs, DownloadManifests)
Spec == Init /\ [][Next]_vars

\* the page in full
NextPage == Run(Bodies, PlainConfigs, PlainManifests)
SpecPage == Init /\ [][NextPage]_vars

\* the configuration document in full
NextConfig == Run(PlainBodies, Configs, PlainManifests)
SpecConfig == Init /\ [][NextConfig]_vars

\* the manifest in full
NextManifest == Run(PlainBodies, PlainConfigs, ParserManifests)
SpecManifest == Init /\ [][NextManifest]_vars

\* ------------------------------------------------------------------ download
\* the selected variant, once there is one
Selected == videos[video]
InDownload == pc \in {"download:144", "download:147", "download:148", "download:154"}
Succeeded == pc = "exit" /\ outcome.kind = "Ok"

\* C1: a segment is accepted only if the transferred byte count equals its
\* declared size, and an integrity error is reported only for a count that
\* differs from the declared size.
C1_AcceptedOnlyIfExact ==
    /\ pc = "download:154" => count = Selected.segments[segment].size
    /\ outcome.error = "Invalid byte count!" => outcome.read # outcome.expected

RECURSIVE DeclaredBodies(_, _)
\* the bodies of the segments from the k-th on, each of its declared size
DeclaredBodies(segments, k) ==
    IF k > Len(segments) THEN <<>>
    ELSE SegmentBytes(k, segments[k].size) \o DeclaredBodies(segments, k + 1)

\* C2: when download returns success the file holds the initialization block
\* followed by the segments' bodies in manifest order and nothing else, and is
\* len(init block) + the sum of the declared sizes long.
C2_FileIsInitThenSegments ==
    Succeeded =>
        /\ file.data = Selected.init_segment \o DeclaredBodies(Selected.segments, 1)
        /\ Len(file.data) = Len(Selected.init_segment) + sum(Selected.segments)

\* C4: the progress counter starts at 0, never decreases, never exceeds the sum
\* of the declared segment sizes, moves only at line 154 (after line 148's check
\* let the loop go on) and then by the segment's declared size, and equals the
\* total when the loop has ended and when download has returned success.
C4_ProgressCounter ==
    /\ [](/\ bar.position <= bar.length
          /\ bar.exists => bar.length = sum(Selected.segments)
          /\ ~bar.exists => bar.position = 0
          /\ pc = "download:144" /\ segment > Len(Selected.segments)
               => bar.position = bar.length
          /\ Succeeded => bar.exists /\ bar.position = bar.length)
    /\ [][/\ ~bar.exists /\ bar'.exists => bar'.position = 0
          /\ bar'.position >= bar.position
          /\ bar'.position # bar.position =>
               /\ pc = "download:154"
               /\ bar'.position = bar.position + Selected.segments[segment].size]_vars

\* two segments' worth of progress, and success
C4_Witness ==
    /\ Succeeded
    /\ Len(Selected.segments) = 2
    /\ Selected.segments[1].size # Selected.segments[2].size
    /\ bar.position = Selected.segments[1].size + Selected.segments[2].size

\* C8: when the transfer of a segment fails, by a transport error or by a byte
\* count that is not the declared size, download returns an error at once: no
\* further request, and the file keeps what was written.
C8_FailedSegmentStopsDownload ==
    [][/\ pc = "download:147" /\ response.body.broken =>
            /\ pc' = "exit" /\ outcome'.kind = "Err" /\ requests' = requests
            /\ file'.data = file.data \o SegmentBytes(segment, response.body.sent)
       /\ pc = "download:148" /\ count # Selected.segments[segment].size =>
            /\ pc' = "exit" /\ outcome'.kind = "Err"
            /\ requests' = requests /\ file' = file
       /\ pc = "exit" => requests' = requests /\ file' = file]_vars

\* the URL the i-th request of a run is for
RequestOf(i) ==
    CASE i = 1 -> PAGE_URL
      [] i = 2 -> config_url
      [] i = 3 -> Requested(master_url)
      [] OTHER -> join(Selected.base_url, Selected.segments[i - 3].path).v

\* how many requests a run has issued when it is where it is
RequestsIssued ==
    CASE pc = "main:32" -> {0}
      [] pc = "main:33" -> {1}
      [] pc = "main:34" -> {2}
      [] pc \in {"main:39", "main:42"} -> {3}
      [] pc = "download:144" -> {3 + segment - 1}
      [] pc \in {"download:147", "download:148", "download:154"} -> {3 + segment}
      [] pc = "exit" /\ outcome.fn = "get_config_url" -> {1}
      [] pc = "exit" /\ outcome.fn = "get_master_url" -> {2}
      [] pc = "exit" /\ outcome.fn = "get_video_infos" -> {3}
      [] pc = "exit" /\ outcome.fn = "main" /\ outcome.kind = "Panic" -> {3}
      [] pc = "exit" /\ outcome.fn = "download" -> {3 + segment - 1, 3 + segment}
      [] pc = "exit" /\ Succeeded -> {3 + Len(Selected.segments)}

\* C9, as amended: the requests of a run are for the page, the configuration
\* document, the manifest and then the selected variant's segments in manifest
\* order, one request for each and one for each entry of the segment list; a
\* run that has ended issues none; and there is a file only after the three
\* documents were resolved and a variant selected.
C9_RequestsInOrderOncePerEntry ==
    /\ Len(requests) \in RequestsIssued
    /\ Len(requests) > 3 => video # 0 /\ Len(requests) <= 3 + Len(Selected.segments)
    /\ \A i \in 1..Len(requests) : requests[i] = RequestOf(i)
    /\ outcome.kind # "Running" <=> pc = "exit"
    /\ file.exists =>
         /\ video # 0 /\ Len(requests) >= 3
         /\ InDownload \/ (pc = "exit" /\ outcome.fn \in {"download", "main"})

\* a successful run that requested the same URL for two segments
C9_Witness ==
    /\ Succeeded
    /\ Len(requests) = 5
    /\ requests[4] = requests[5]

\* C9, as claimed: the same, and no URL is requested twice.
C9_EachUrlAtMostOnce ==
    /\ C9_RequestsInOrderOncePerEntry
    /\ \A i, j \in 1..Len(requests) : i # j => requests[i] # requests[j]

\* ----------------------------------------------------------------- selection
\* C3, as amended: the selected variant has the largest width of the list, and
\* of several with that width it is the one occurring latest.
C3_LargestWidthLatest ==
    video # 0 =>
        /\ video \in 1..Len(videos)
        /\ \A i \in 1..Len(videos) : videos[i].width <= Selected.width
        /\ \A i \in (video + 1)..Len(videos) : videos[i].width < Selected.width

\* a selection among two variants of the largest width
C3_Witness ==
    /\ video # 0
    /\ \E i \in 1..Len(videos) : i # video /\ videos[i].width = Selected.width

\* C3, as claimed: of several variants with the largest width the earliest is
\* selected.
C3_LargestWidthEarliest ==
    video # 0 =>
        /\ video \in 1..Len(videos)
        /\ \A i \in 1..Len(videos) : videos[i].width <= Selected.width
        /\ \A i \in 1..(video - 1) : videos[i].width < Selected.width

\* C10: a variant selected for download has segments: no file is created, and
\* no success returned, for a variant with none.
C10_SelectedHasSegments ==
    video # 0 /\ (file.exists \/ Succeeded) => Selected.segments # <<>>

\* ---------------------------------------------------- the documents' shape
\* the response held is the configuration document's, and get_master_url ended
AfterConfig ==
    /\ Len(requests) = 2
    /\ pc = "main:34" \/ (pc = "exit" /\ outcome.fn = "get_master_url")
IsString(value) == value.t = "String"
IsObject(value) == value.t = "Object"
Has(value, key) == IsObject(value) /\ key \in DOMAIN value.map

\* the document has every step of request.files.dash.cdns[default_cdn].url
ConfigWellFormed(doc) ==
    /\ Has(doc, "request") /\ Has(doc.map.request, "files")
    /\ Has(doc.map.request.map.files, "dash")
    /\ LET dash == doc.map.request.map.files.map.dash
       IN  /\ Has(dash, "default_cdn") /\ IsString(dash.map.default_cdn)
           /\ Has(dash, "cdns")
           /\ Has(dash.map.cdns, dash.map.default_cdn.str)
           /\ Has(dash.map.cdns.map[dash.map.default_cdn.str], "url")
           /\ IsString(dash.map.cdns.map[dash.map.default_cdn.str].map.url)
DefaultCdnUrl(doc) ==
    LET dash == doc.map.request.map.files.map.dash
    IN  dash.map.cdns.map[dash.map.default_cdn.str].map.url.str

\* C5: for a JSON configuration document, get_master_url returns the url of the
\* cdns entry that default_cdn names, and returns an error value when a step of
\* the traversal is absent or of the wrong shape.
C5_UrlOrInvalidFormat ==
    AfterConfig /\ response.ok /\ response.body # NotJson =>
        IF ConfigWellFormed(response.body)
        THEN pc = "main:34" /\ master_url = DefaultCdnUrl(response.body)
        ELSE pc = "exit" /\ outcome.kind = "Err"

\* the response held is the manifest's, and get_video_infos ended
AfterManifest ==
    /\ Len(requests) = 3
    /\ pc \in {"main:39", "main:42"} \/ (pc = "exit" /\ outcome.fn = "get_video_infos")
IsU64(value) == value.t = "Number" /\ value.num >= 0
SegmentWellFormed(s) ==
    /\ Has(s, "url") /\ IsString(s.map.url)
    /\ Has(s, "size") /\ IsU64(s.map.size)
VariantWellFormed(v) ==
    /\ Has(v, "bitrate") /\ IsU64(v.map.bitrate)
    /\ Has(v, "duration") /\ v.map.duration.t = "Number"
    /\ Has(v, "width") /\ IsU64(v.map.width)
    /\ Has(v, "height") /\ IsU64(v.map.height)
    /\ Has(v, "init_segment") /\ IsString(v.map.init_segment)
    /\ decode(Symbols(v.map.init_segment.str)).kind = "Ok"
    /\ Has(v, "segments") /\ v.map.segments.t = "Array"
    /\ \A i \in 1..Len(v.map.segments.list) : SegmentWellFormed(v.map.segments.list[i])
\* a required field is absent, of the wrong type or not decodable
ManifestMalformed(doc) ==
    \/ ~(Has(doc, "base_url") /\ IsString(doc.map.base_url))
    \/ ~(Has(doc, "video") /\ doc.map.video.t = "Array")
    \/ \E i \in 1..Len(doc.map.video.list) : ~VariantWellFormed(doc.map.video.list[i])

\* C7: for a manifest with a required field absent, of the wrong type or not
\* decodable, get_video_infos returns an error value, there is no variant list
\* and no output file.
C7_MalformedIsInvalidFormat ==
    AfterManifest /\ response.ok /\ response.body # NotJson
                  /\ ManifestMalformed(response.body) =>
        /\ pc = "exit" /\ outcome.kind = "Err"
        /\ videos = <<>> /\ ~file.exists

\* --------------------------------------------------------------- the page
\* the response held is the page's, and get_config_url ended
AfterPage ==
    /\ Len(requests) = 1
    /\ pc = "main:33" \/ (pc = "exit" /\ outcome.fn = "get_config_url")
\* data-config-url="X" stands at i..j of the text, X being what is between the
\* quotes
MarkerAt(text, i, j) ==
    /\ i >= 1 /\ j <= Len(text) /\ j >= i + 2
    /\ text[i] = ATTR /\ text[i + 1] = DQ /\ text[j] = DQ
    /\ \A k \in (i + 2)..(j - 1) : text[k] # DQ
\* the markers of the text whose X has at least min pieces, as <<i, j>>
Markers(text, min) ==
    {m \in (1..Len(text)) \X (1..Len(text)) :
        MarkerAt(text, m[1], m[2]) /\ m[2] - m[1] - 2 >= min}
First(markers) == CHOOSE m \in markers : \A o \in markers : m[1] <= o[1]
Value(text, m) == SubSeq(text, m[1] + 2, m[2] - 1)
\* get_config_url returns the decoded X of the first marker among those whose X
\* has at least min pieces, and the error, with no further request, when there
\* is none
ReturnsFirstMarker(min) ==
    AfterPage /\ response.ok =>
        LET markers == Markers(response.body, min)
        IN  IF markers # {}
            THEN /\ pc = "main:33"
                 /\ config_url =
                      decode_html_entities(Value(response.body, First(markers)))
            ELSE /\ pc = "exit" /\ outcome.kind = "Err"
                 /\ outcome.error = "Did not find video config url!"
                 /\ requests = <<PAGE_URL>>

\* C6, as amended: get_config_url returns the entity-decoded value of the first
\* marker data-config-url="X" whose X is not empty, whatever markers follow it,
\* and the not-found error, with no further request, when the body has no
\* such marker.
C6_FirstNonEmptyMarkerDecoded == ReturnsFirstMarker(1)

\* a body with two markers of different values; the first one's is returned
C6_Witness ==
    /\ AfterPage /\ response.ok /\ pc = "main:33"
    /\ Cardinality(Markers(response.body, 1)) = 2
    /\ \E m, o \in Markers(response.body, 1) :
         /\ m[1] < o[1]
         /\ Value(response.body, m) # Value(response.body, o)
         /\ config_url = Value(response.body, m)

\* C6, as claimed: the same for every marker, one with an empty X included.
C6_FirstMarkerDecoded == ReturnsFirstMarker(0)

====
